---- MODULE Spec2Model ----
(***************************************************************************)
(* Item comparison service (ItemServiceImpl) over the ItemRepository       *)
(* interface.  One behaviour step is one whole service call: the caller's  *)
(* input and the repository's answer are the inputs of the step, the       *)
(* repository calls made and the (result, error) pair returned are its     *)
(* outputs.                                                                *)
(***************************************************************************)
EXTENDS Integers, Sequences, FiniteSets, TLC

VARIABLES
    pc,          \* "idle": no call in progress; "returned": a call has returned
    op,          \* the service method called: "CompareItems", "GetItemByID", "GetAllItems"
    itemIDs,     \* the caller's argument of the last CompareItems call
    itemID,      \* the caller's argument of the last GetItemByID call
    repoCalls,   \* the repository calls made by that call, in order (their argument:
                 \* the ids of GetByIDs, <<id>> for GetByID, <<>> for GetAll)
    repoReturn,  \* what the repository answered: [items, err]
    result,      \* returned value: <<>> for nil, <<value>> otherwise
    err,         \* returned error: <<>> for nil, <<DomainError>> otherwise
    store,       \* the table behind the SQLite repository (concurrent behaviours)
    calls,       \* per goroutine, the service call it is executing (concurrent
                 \* behaviours): position, arguments, local variables, outcome
    httpReq,     \* the last HTTP request served: route, parameters, and what the
                 \* limiter and the service answered to it
    handled,     \* the error written for that request: <<>> for none, <<error>> otherwise
    response,    \* the response written: [status, body]
    rlNow,       \* the time, in token intervals (timeWindow / rateLimit)
    rlClients,   \* RateLimiter.clients: per client IP the limiter (tokens, last) and
                 \* lastAccess
    rlForwarded, \* per client IP, the times of the requests passed to the next handler
    rlVerdict,   \* what the middleware did with the last request: [ip, status]
    ckClients,   \* RateLimiter.clients when followed over minutes: per client IP the
                 \* limiter (which one created for that IP) and the minutes since
                 \* lastAccess
    ckMade,      \* per client IP, the limiters created for it so far
    ckEvicted,   \* per client IP, the times its entry was deleted by a sweep
    ckTicker,    \* the ticker of cleanup: [in: minutes to the next tick, pending: a tick
                 \* waits in ticker.C]
    ckReqs,      \* per goroutine, the request it serves in RateLimit: position, client
                 \* IP, the limiter it got, the evictions of that IP before it got it
    srv,         \* the process: where main, NewServer and Server.Start are, what
                 \* Shutdown returned, whether repo.Close() was called, what Start returned
    db,          \* the database file: [open: the process holds it open, items: the names
                 \* in the rows of the items table, in rowid order]
    seedRet,     \* the last Seed call: [called, err, inserted: rows it inserted]
    cleanupLoop  \* the cleanup goroutine of the RateLimiter of the router: [state,
                 \* stopCalled, sweeps: sweeps performed, late: a sweep ran after
                 \* Server.Start returned]

seqVars == <<pc, op, itemIDs, itemID, repoCalls, repoReturn, result, err>>

transportVars == <<httpReq, handled, response>>

limiterVars == <<rlNow, rlClients, rlForwarded, rlVerdict>>

cleanupVars == <<ckClients, ckMade, ckEvicted, ckTicker, ckReqs>>

serverVars == <<srv, db, seedRet, cleanupLoop>>

\* what the steps of each behaviour leave alone
seqFrame == <<store, calls, transportVars, limiterVars, cleanupVars, serverVars>>

concFrame == <<seqVars, transportVars, limiterVars, cleanupVars, serverVars>>

transportFrame == <<seqVars, store, calls, limiterVars, cleanupVars, serverVars>>

limiterFrame == <<seqVars, store, calls, transportVars, cleanupVars, serverVars>>

cleanupFrame == <<seqVars, store, calls, transportVars, limiterVars, serverVars>>

serverFrame == <<seqVars, store, calls, transportVars, limiterVars, cleanupVars>>

vars == <<pc, op, itemIDs, itemID, repoCalls, repoReturn, result, err, store, calls,
          httpReq, handled, response, rlNow, rlClients, rlForwarded, rlVerdict,
          ckClients, ckMade, ckEvicted, ckTicker, ckReqs, srv, db, seedRet, cleanupLoop>>

(***************************************************************************)
(* Bounds of the model                                                     *)
(***************************************************************************)
\* identifiers used in the exhaustively enumerated short requests
MaxID == 3
\* items with an identifier up to MaxVaried take every content in Contents
MaxVaried == 2
\* longest exhaustively enumerated request
MaxShortLen == 3
\* longest request (the long requests are the cyclic ones of LongInputs)
MaxLen == 11
\* the repository leaves out at most this many of the requested items
MaxMissing == 2
\* goroutines calling the service at the same time
MaxCalls == 2
\* identifiers used by the concurrent calls and in their table
MaxConcID == 2
\* token intervals the limiter is followed for
MaxTicks == 1
\* goroutines serving requests in the middleware at the same time
MaxRequests == 2
\* limiters created for one client IP
MaxLimiters == 2

(***************************************************************************)
(* Program constants                                                       *)
(***************************************************************************)
MinCompareItems == 2
MaxCompareItems == 10

ErrorCodeNotFound == "NOT_FOUND"
ErrorCodeBadRequest == "BAD_REQUEST"
ErrorCodeInternalServer == "INTERNAL_SERVER_ERROR"
ErrorCodeValidation == "VALIDATION_ERROR"
ErrorCodeTooManyRequests == "TOO_MANY_REQUESTS"

\* a nil error
NoError == "nil"

(***************************************************************************)
(* Generic helpers                                                         *)
(***************************************************************************)
Range(s) == {s[i] : i \in 1..Len(s)}

Reverse(s) == [i \in 1..Len(s) |-> s[Len(s) + 1 - i]]

Min(S) == CHOOSE x \in S : \A y \in S : x <= y

\* s without its element at position p
RemoveAt(s, p) == [i \in 1..(Len(s) - 1) |-> IF i < p THEN s[i] ELSE s[i + 1]]

\* sort.Float64s / ascending sort of a slice of numbers (repeats kept)
RECURSIVE SortFloat64s(_)
SortFloat64s(s) ==
    IF Len(s) = 0 THEN <<>>
    ELSE LET m == Min(Range(s))
             p == CHOOSE i \in 1..Len(s) : s[i] = m
         IN  <<m>> \o SortFloat64s(RemoveAt(s, p))

(***************************************************************************)
(* Items (models.Item) and specification keys                              *)
(***************************************************************************)
SpecKeys == {"brand", "color", "size"}

\* position of a key in the lexicographic (byte-wise) order of sort.Strings
KeyRank == [k \in SpecKeys |-> CASE k = "brand" -> 1 [] k = "color" -> 2 [] k = "size" -> 3]

\* variant: the slice is left in an iteration order of the map (here the descending
\* one) instead of being sorted
RECURSIVE SortStrings_Unsorted(_)
SortStrings_Unsorted(K) ==
    IF K = {} THEN <<>>
    ELSE LET k == CHOOSE x \in K : \A y \in K : KeyRank[x] >= KeyRank[y]
         IN  <<k>> \o SortStrings_Unsorted(K \ {k})

\* sort.Strings applied to a slice holding the keys of K (each once)
RECURSIVE SortStrings(_)
SortStrings(K) ==
    IF K = {} THEN <<>>
    ELSE LET k == CHOOSE x \in K : \A y \in K : KeyRank[x] <= KeyRank[y]
         IN  <<k>> \o SortStrings(K \ {k})

Item(id, c) ==
    [ID |-> id, Price |-> c.Price, Rating |-> c.Rating, Specifications |-> c.Specifications]

\* key sets of the varied items
KeySets == {{}, {"color"}, {"brand", "color"}, {"color", "size"}, SpecKeys}

\* every key set of KeySets with the value "x", and the full key set with the value "y"
SpecMaps ==
    {[k \in K |-> "x"] : K \in KeySets} \cup {[k \in SpecKeys |-> "y"]}

DefaultSpecs == [k \in SpecKeys |-> "x"]

\* contents an item with a varied identifier may have
Contents ==
    {[Price |-> 100, Rating |-> 4, Specifications |-> m] : m \in SpecMaps}
    \cup {[Price |-> 200, Rating |-> 5, Specifications |-> DefaultSpecs]}

\* content of the other items
DefaultContent(id) ==
    [Price |-> 100 * id, Rating |-> 1 + (id % 5),
     Specifications |-> IF id % 2 = 1 THEN [k \in {"color", "size"} |-> "x"]
                        ELSE [k \in {"brand", "color"} |-> "y"]]

(***************************************************************************)
(* Domain errors (internal/errors)                                         *)
(***************************************************************************)
\* a message without arguments
Msg(text) == [format |-> text, ids |-> <<>>, id |-> <<>>]

NewDomainError(code, message, cause) ==
    [Code |-> code, Message |-> message, Err |-> cause]

\* fmt.Sprintf("%s with id %v not found", resource, id); the DomainError wraps nothing
NewNotFoundError(resource, id) ==
    NewDomainError(ErrorCodeNotFound,
                   [format |-> resource.format \o " with id %v not found",
                    ids |-> resource.ids, id |-> id],
                   NoError)

NewValidationError(message, cause) ==
    NewDomainError(ErrorCodeValidation, message, cause)

\* variant: the cause is dropped instead of wrapped
NewInternalServerError_NoCause(message, cause) ==
    NewDomainError(ErrorCodeInternalServer, message, NoError)

NewInternalServerError(message, cause) ==
    NewDomainError(ErrorCodeInternalServer, message, cause)

(***************************************************************************)
(* ItemServiceImpl                                                         *)
(***************************************************************************)
\* uniqueIDs: the loop over ids from position i, with the seen map and the result so far
RECURSIVE uniqueIDsLoop(_, _, _, _)
uniqueIDsLoop(ids, i, seen, res) ==
    IF i > Len(ids) THEN res
    ELSE IF ids[i] \notin seen
         THEN uniqueIDsLoop(ids, i + 1, seen \cup {ids[i]}, Append(res, ids[i]))
         ELSE uniqueIDsLoop(ids, i + 1, seen, res)

\* variant: of repeated ids the last occurrence is kept instead of the first
uniqueIDs_KeepLast(ids) == Reverse(uniqueIDsLoop(Reverse(ids), 1, {}, <<>>))

uniqueIDs(ids) == uniqueIDsLoop(ids, 1, {}, <<>>)

\* missingItemIDs: the requested ids without a found item, in request order
RECURSIVE missingLoop(_, _, _, _)
missingLoop(requested, foundMap, i, missing) ==
    IF i > Len(requested) THEN missing
    ELSE IF requested[i] \notin foundMap
         THEN missingLoop(requested, foundMap, i + 1, Append(missing, requested[i]))
         ELSE missingLoop(requested, foundMap, i + 1, missing)

\* variant: the found items are taken to answer the first requested ids
missingItemIDs_Tail(requested, found) ==
    SubSeq(requested, Len(found) + 1, Len(requested))

missingItemIDs(requested, found) ==
    LET foundMap == {found[i].ID : i \in 1..Len(found)}
    IN  missingLoop(requested, foundMap, 1, <<>>)

\* variant: a key counts as common as soon as two items hold it
findCommonSpecs_Shared(items) ==
    IF Len(items) = 0 THEN <<>>
    ELSE LET seenKeys == UNION {DOMAIN items[i].Specifications : i \in 1..Len(items)}
             specCounts == [k \in seenKeys |->
                 Cardinality({i \in 1..Len(items) : k \in DOMAIN items[i].Specifications})]
         IN  SortStrings({k \in seenKeys : specCounts[k] >= 2})

\* findCommonSpecs: keys whose count over the items equals the number of items
findCommonSpecs(items) ==
    IF Len(items) = 0 THEN <<>>
    ELSE LET seenKeys == UNION {DOMAIN items[i].Specifications : i \in 1..Len(items)}
             specCounts == [k \in seenKeys |->
                 Cardinality({i \in 1..Len(items) : k \in DOMAIN items[i].Specifications})]
             totalItems == Len(items)
         IN  SortStrings({k \in seenKeys : specCounts[k] = totalItems})

\* variant: every item gets an entry, empty when it has no unique key
findUniqueSpecs_AllItems(items) ==
    LET seenKeys == UNION {DOMAIN items[i].Specifications : i \in 1..Len(items)}
        specMap == [k \in seenKeys |->
            {items[i].ID : i \in {j \in 1..Len(items) : k \in DOMAIN items[j].Specifications}}]
        single == {k \in seenKeys : Cardinality(specMap[k]) = 1}
    IN  [id \in {items[i].ID : i \in 1..Len(items)} |->
            SortStrings({k \in single : specMap[k] = {id}})]

\* findUniqueSpecs: per item id, the keys held by exactly one item id
findUniqueSpecs(items) ==
    LET seenKeys == UNION {DOMAIN items[i].Specifications : i \in 1..Len(items)}
        specMap == [k \in seenKeys |->
            {items[i].ID : i \in {j \in 1..Len(items) : k \in DOMAIN items[j].Specifications}}]
        single == {k \in seenKeys : Cardinality(specMap[k]) = 1}
        owners == UNION {specMap[k] : k \in single}
    IN  [id \in owners |-> SortStrings({k \in single : specMap[k] = {id}})]

ZeroComparisonDetails ==
    [PriceRange |-> [Min |-> 0, Max |-> 0], RatingRange |-> [Min |-> 0, Max |-> 0],
     CommonSpecs |-> <<>>, UniqueSpecs |-> <<>>]

\* variant: the first and last values are taken without sorting
generateComparison_Unsorted(items) ==
    IF Len(items) = 0 THEN ZeroComparisonDetails
    ELSE LET prices == [i \in 1..Len(items) |-> items[i].Price]
             ratings == [i \in 1..Len(items) |-> items[i].Rating]
         IN  [PriceRange |-> [Min |-> prices[1], Max |-> prices[Len(prices)]],
              RatingRange |-> [Min |-> ratings[1], Max |-> ratings[Len(ratings)]],
              CommonSpecs |-> findCommonSpecs(items),
              UniqueSpecs |-> findUniqueSpecs(items)]

generateComparison(items) ==
    IF Len(items) = 0 THEN ZeroComparisonDetails
    ELSE LET prices == SortFloat64s([i \in 1..Len(items) |-> items[i].Price])
             ratings == SortFloat64s([i \in 1..Len(items) |-> items[i].Rating])
         IN  [PriceRange |-> [Min |-> prices[1], Max |-> prices[Len(prices)]],
              RatingRange |-> [Min |-> ratings[1], Max |-> ratings[Len(ratings)]],
              CommonSpecs |-> findCommonSpecs(items),
              UniqueSpecs |-> findUniqueSpecs(items)]

\* variant: the upper limit is not checked
ValidateCount_NoMax(ids) ==
    IF Len(ids) < MinCompareItems
    THEN <<NewValidationError(Msg("se requieren al menos 2 items para comparar"), NoError)>>
    ELSE <<>>

\* the business-rule validation at the head of CompareItems: the error it returns, if any
ValidateCount(ids) ==
    IF Len(ids) < MinCompareItems
    THEN <<NewValidationError(Msg("se requieren al menos 2 items para comparar"), NoError)>>
    ELSE IF Len(ids) > MaxCompareItems
    THEN <<NewValidationError(Msg("maximo 10 items pueden compararse a la vez"), NoError)>>
    ELSE <<>>

\* the items in ascending identifier order (ids taken as distinct)
RECURSIVE SortByID(_)
SortByID(items) ==
    IF Len(items) = 0 THEN <<>>
    ELSE LET p == CHOOSE i \in 1..Len(items) : \A j \in 1..Len(items) : items[i].ID <= items[j].ID
         IN  <<items[p]>> \o SortByID(RemoveAt(items, p))

\* variant: the service sorts the items by identifier before answering
CompareResponse_Sorted(items) ==
    [Items |-> SortByID(items), Comparison |-> generateComparison(SortByID(items))]

\* the response CompareItems builds from the repository's items
CompareResponse(items) ==
    [Items |-> items, Comparison |-> generateComparison(items)]

\* CompareItems(ctx, ids) when the repository answers ret to the GetByIDs call (if made):
\* the repository calls made, the result and the error
CompareItemsOutcome(ids, ret) ==
    IF ValidateCount(ids) # <<>>
    THEN [repoCalls |-> <<>>, result |-> <<>>, err |-> ValidateCount(ids)]
    ELSE LET deduped == uniqueIDs(ids)
             items == ret.items
         IN  IF ret.err # NoError
             THEN [repoCalls |-> <<deduped>>, result |-> <<>>,
                   err |-> <<NewInternalServerError(
                               Msg("error al obtener los items para comparacion"), ret.err)>>]
             ELSE IF Len(items) # Len(deduped)
             THEN [repoCalls |-> <<deduped>>, result |-> <<>>,
                   err |-> <<NewNotFoundError(
                               [format |-> "Items con IDs %v no encontrados",
                                ids |-> missingItemIDs(deduped, items)], <<>>)>>]
             ELSE [repoCalls |-> <<deduped>>, result |-> <<CompareResponse(items)>>,
                   err |-> <<>>]

\* repositories.ErrNotFound, the sentinel for an absent resource
ErrNotFound == "recurso no encontrado"

\* context.Canceled, as a repository call returns it when its context is cancelled
ContextCanceled == "context canceled"

\* errors.Is(e, target) for errors that wrap nothing
ErrorsIs(e, target) == e = target

\* variant: only negative identifiers are rejected
ValidateID_NegativeOnly(id) ==
    IF id < 0 THEN <<NewValidationError(Msg("ID invalido"), NoError)>> ELSE <<>>

\* the validation at the head of GetItemByID: the error it returns, if any
ValidateID(id) ==
    IF id <= 0 THEN <<NewValidationError(Msg("ID invalido"), NoError)>> ELSE <<>>

\* variant: every repository error is answered as an internal error
GetItemByIDOutcome_AllInternal(id, ret) ==
    IF ValidateID(id) # <<>>
    THEN [repoCalls |-> <<>>, result |-> <<>>, err |-> ValidateID(id)]
    ELSE IF ret.err # NoError
    THEN [repoCalls |-> <<<<id>>>>, result |-> <<>>,
          err |-> <<NewInternalServerError(Msg("error al obtener el item"), ret.err)>>]
    ELSE [repoCalls |-> <<<<id>>>>, result |-> ret.items, err |-> <<>>]

\* GetItemByID(ctx, id) when the repository answers ret to the GetByID call (if made)
GetItemByIDOutcome(id, ret) ==
    IF ValidateID(id) # <<>>
    THEN [repoCalls |-> <<>>, result |-> <<>>, err |-> ValidateID(id)]
    ELSE IF ret.err # NoError
    THEN IF ErrorsIs(ret.err, ErrNotFound)
         THEN [repoCalls |-> <<<<id>>>>, result |-> <<>>,
               err |-> <<NewNotFoundError([format |-> "Item", ids |-> <<>>], <<id>>)>>]
         ELSE [repoCalls |-> <<<<id>>>>, result |-> <<>>,
               err |-> <<NewInternalServerError(Msg("error al obtener el item"), ret.err)>>]
    ELSE [repoCalls |-> <<<<id>>>>, result |-> ret.items, err |-> <<>>]

\* variant: a failed GetAll is tried once more before the failure is returned
GetAllItemsOutcome_Retry(ret) ==
    IF ret.err # NoError
    THEN [repoCalls |-> <<<<>>, <<>>>>, result |-> <<>>,
          err |-> <<NewInternalServerError(Msg("error al obtener los items"), ret.err)>>]
    ELSE [repoCalls |-> <<<<>>>>, result |-> <<ret.items>>, err |-> <<>>]

\* GetAllItems(ctx) when the repository answers ret to the GetAll call
GetAllItemsOutcome(ret) ==
    IF ret.err # NoError
    THEN [repoCalls |-> <<<<>>>>, result |-> <<>>,
          err |-> <<NewInternalServerError(Msg("error al obtener los items"), ret.err)>>]
    ELSE [repoCalls |-> <<<<>>>>, result |-> <<ret.items>>, err |-> <<>>]

(***************************************************************************)
(* The repository as the service sees it (ItemRepository)                  *)
(***************************************************************************)
RepoErrors == {"sql: connection is already closed", ContextCanceled}

NoReturn == [items |-> <<>>, err |-> NoError]

\* the ids of S in ascending order
RECURSIVE Ascending(_)
Ascending(S) == IF S = {} THEN <<>> ELSE <<Min(S)>> \o Ascending(S \ {Min(S)})

\* position of the first occurrence of x in s
FirstIndex(s, x) == Min({i \in 1..Len(s) : s[i] = x})

\* the ids of S in the order of their first occurrence in q
RECURSIVE Restrict(_, _)
Restrict(q, S) ==
    IF S = {} THEN <<>>
    ELSE LET x == CHOOSE y \in S : \A z \in S : FirstIndex(q, y) <= FirstIndex(q, z)
         IN  <<x>> \o Restrict(q, S \ {x})

\* orders in which a repository may list the items of S asked for by the query q
AnswerOrders(q, S) ==
    {Ascending(S), Reverse(Ascending(S)), Restrict(q, S), Reverse(Restrict(q, S))}

\* contents of the items S of an answer to the query q: varied for the identifiers up
\* to MaxVaried when the query stays within 1..MaxID, the default ones otherwise
ContentChoices(q, S) ==
    LET varied == IF Range(q) \subseteq 1..MaxID THEN {id \in S : id <= MaxVaried} ELSE {}
    IN  {[id \in S |-> IF id \in varied THEN f[id] ELSE DefaultContent(id)]
            : f \in [varied -> Contents]}

\* sets of items a repository may find for the query q
AnswerSets(q) ==
    {T \in SUBSET Range(q) : Cardinality(Range(q) \ T) <= MaxMissing}

\* the answer listing the items o (a sequence of ids) with the contents f
Answer(o, f) ==
    [items |-> [i \in 1..Len(o) |-> Item(o[i], f[o[i]])], err |-> NoError]

\* the answer of a failed lookup
Failure(e) == [items |-> <<>>, err |-> e]

(***************************************************************************)
(* Requests                                                                *)
(***************************************************************************)
ShortInputs == UNION {[1..n -> 1..MaxID] : n \in 0..MaxShortLen}

\* n entries cycling over the ids 1..d
Cycle(d, n) == [i \in 1..n |-> ((i - 1) % d) + 1]

LongInputs ==
    UNION {UNION {{Cycle(d, n), Reverse(Cycle(d, n))} : d \in 1..n}
           : n \in (MaxCompareItems - 1)..MaxLen}

Inputs == ShortInputs \cup LongInputs

\* identifiers asked of GetItemByID
IDInputs == (0 - MaxID)..MaxID

(***************************************************************************)
(* The SQLite repository over a table that does not change                 *)
(***************************************************************************)
\* the table holds rows for the identifiers 1..k; a closed database fails every query
Stores ==
    {[closed |-> TRUE, rows |-> <<>>]} \cup
    {[closed |-> FALSE, rows |-> [id \in 1..k |-> DefaultContent(id)]] : k \in 0..MaxConcID}

NoStore == [closed |-> TRUE, rows |-> <<>>]

\* SELECT ... FROM items ORDER BY id
SQLiteGetAll(st) ==
    IF st.closed THEN Failure("failed to query items: sql: database is closed")
    ELSE Answer(Ascending(DOMAIN st.rows), st.rows)

\* SELECT ... WHERE id = ?; sql.ErrNoRows becomes ErrNotFound
SQLiteGetByID(st, id) ==
    IF st.closed THEN Failure("error al consultar item: sql: database is closed")
    ELSE IF id \notin DOMAIN st.rows THEN Failure(ErrNotFound)
    ELSE Answer(<<id>>, st.rows)

\* SELECT ... WHERE id IN (...) ORDER BY id; no query for an empty list
SQLiteGetByIDs(st, ids) ==
    IF Len(ids) = 0 THEN Answer(<<>>, st.rows)
    ELSE IF st.closed THEN Failure("error al consultar los items: sql: database is closed")
    ELSE Answer(Ascending(Range(ids) \cap DOMAIN st.rows), st.rows)

(***************************************************************************)
(* Goroutines                                                              *)
(***************************************************************************)
Goroutines == 1..MaxCalls

NoOutcome == [repoCalls |-> <<>>, result |-> <<>>, err |-> <<>>]

\* a goroutine that is not in a service call
IdleCall == [pc |-> "idle", op |-> "none", arg |-> <<>>, ids |-> <<>>, id |-> 0,
             local |-> <<>>, sent |-> <<>>, ret |-> NoReturn, out |-> NoOutcome]

\* requests and identifiers of the concurrent calls
ConcRequests == UNION {[1..n -> 1..MaxConcID] : n \in 1..MinCompareItems}

ConcIDInputs == 0..MaxConcID

(***************************************************************************)
(* Parts of the state at rest                                              *)
(***************************************************************************)
NoRequest == [route |-> "none", allowed |-> TRUE, idStr |-> <<>>, body |-> <<>>,
              ret |-> <<>>]

NoResponse == [status |-> 0, body |-> <<>>]

SeqOff ==
    /\ pc = "idle"
    /\ op = "none"
    /\ itemIDs = <<>>
    /\ itemID = 0
    /\ repoCalls = <<>>
    /\ repoReturn = NoReturn
    /\ result = <<>>
    /\ err = <<>>

ConcOff ==
    /\ store = NoStore
    /\ calls = [g \in Goroutines |-> IdleCall]

TransportOff ==
    /\ httpReq = NoRequest
    /\ handled = <<>>
    /\ response = NoResponse

NoVerdict == [ip |-> "", status |-> 0]

LimiterOff ==
    /\ rlNow = 0
    /\ rlClients = <<>>
    /\ rlForwarded = <<>>
    /\ rlVerdict = NoVerdict

\* cleanupInterval and limiterEvictionAge, in minutes
cleanupInterval == 5
limiterEvictionAge == 10

\* client IPs of the requests followed over minutes
SweptIPs == {"203.0.113.7", "198.51.100.9"}

Requesters == 1..MaxRequests

IdleRequest == [pc |-> "idle", ip |-> "", limiter |-> 0, seen |-> 0]

CleanupOff ==
    /\ ckClients = <<>>
    /\ ckMade = [ip \in SweptIPs |-> 0]
    /\ ckEvicted = [ip \in SweptIPs |-> 0]
    /\ ckTicker = [in |-> cleanupInterval, pending |-> FALSE]
    /\ ckReqs = [g \in Requesters |-> IdleRequest]

\* no process runs: main has not been started or the process has exited
NoProcess == [pc |-> "exited", shutdown |-> "none", closed |-> FALSE, ret |-> "none"]

NoSeed == [called |-> FALSE, err |-> "", inserted |-> 0]

NoCleanupLoop == [state |-> "none", stopCalled |-> FALSE, sweeps |-> 0, late |-> FALSE]

ServerOff ==
    /\ srv = NoProcess
    /\ db = [open |-> FALSE, items |-> <<>>]
    /\ seedRet = NoSeed
    /\ cleanupLoop = NoCleanupLoop

(***************************************************************************)
(* Behaviour                                                               *)
(***************************************************************************)
Init ==
    /\ pc = "idle"
    /\ op = "none"
    /\ itemIDs = <<>>
    /\ itemID = 0
    /\ repoCalls = <<>>
    /\ repoReturn = NoReturn
    /\ result = <<>>
    /\ err = <<>>
    /\ store = NoStore
    /\ calls = [g \in Goroutines |-> IdleCall]
    /\ TransportOff
    /\ LimiterOff
    /\ CleanupOff
    /\ ServerOff

\* one call of ItemServiceImpl.CompareItems
CompareItems(ids, ret) ==
    /\ pc = "idle"
    /\ LET out == CompareItemsOutcome(ids, ret)
       IN  /\ repoCalls' = out.repoCalls
           /\ result' = out.result
           /\ err' = out.err
           /\ repoReturn' = IF out.repoCalls = <<>> THEN NoReturn ELSE ret
    /\ itemIDs' = ids
    /\ itemID' = 0
    /\ op' = "CompareItems"
    /\ pc' = "returned"
    /\ UNCHANGED seqFrame

\* the caller takes the outcome; nothing of the call is kept
Discard ==
    /\ pc = "returned"
    /\ pc' = "idle"
    /\ op' = "none"
    /\ itemIDs' = <<>>
    /\ itemID' = 0
    /\ repoCalls' = <<>>
    /\ repoReturn' = NoReturn
    /\ result' = <<>>
    /\ err' = <<>>
    /\ UNCHANGED seqFrame

\* the GetByIDs calls CompareItems makes for the request ids (they do not depend on
\* the repository's answer)
QueriesOf(ids) == CompareItemsOutcome(ids, NoReturn).repoCalls

\* a call with the request ids; a repository that honours the interface answers the
\* query, if it is made, with an error or with each requested item at most once, only
\* requested items, in any order
CompareItemsCall ==
    /\ pc = "idle"
    /\ \E ids \in Inputs :
          IF QueriesOf(ids) = <<>>
          THEN CompareItems(ids, NoReturn)
          ELSE LET q == QueriesOf(ids)[1]
               IN  \/ \E e \in RepoErrors : CompareItems(ids, Failure(e))
                   \/ \E S \in AnswerSets(q) : \E o \in AnswerOrders(q, S) :
                         \E f \in ContentChoices(q, S) : CompareItems(ids, Answer(o, f))

\* one call of ItemServiceImpl.GetItemByID
GetItemByID(id, ret) ==
    /\ pc = "idle"
    /\ LET out == GetItemByIDOutcome(id, ret)
       IN  /\ repoCalls' = out.repoCalls
           /\ result' = out.result
           /\ err' = out.err
           /\ repoReturn' = IF out.repoCalls = <<>> THEN NoReturn ELSE ret
    /\ itemIDs' = <<>>
    /\ itemID' = id
    /\ op' = "GetItemByID"
    /\ pc' = "returned"
    /\ UNCHANGED seqFrame

\* a call with the identifier id; the repository answers the GetByID call, if it is
\* made, with the item of that identifier, with ErrNotFound or with another error
GetItemByIDCall ==
    /\ pc = "idle"
    /\ \E id \in IDInputs :
          IF GetItemByIDOutcome(id, NoReturn).repoCalls = <<>>
          THEN GetItemByID(id, NoReturn)
          ELSE \/ \E e \in RepoErrors \cup {ErrNotFound} : GetItemByID(id, Failure(e))
               \/ \E f \in ContentChoices(<<id>>, {id}) : GetItemByID(id, Answer(<<id>>, f))

\* one call of ItemServiceImpl.GetAllItems
GetAllItems(ret) ==
    /\ pc = "idle"
    /\ LET out == GetAllItemsOutcome(ret)
       IN  /\ repoCalls' = out.repoCalls
           /\ result' = out.result
           /\ err' = out.err
           /\ repoReturn' = ret
    /\ itemIDs' = <<>>
    /\ itemID' = 0
    /\ op' = "GetAllItems"
    /\ pc' = "returned"
    /\ UNCHANGED seqFrame

\* a call; the repository answers GetAll with an error or with the items it holds
GetAllItemsCall ==
    /\ pc = "idle"
    /\ \/ \E e \in RepoErrors : GetAllItems(Failure(e))
       \/ \E S \in SUBSET (1..MaxID) : \E o \in {Ascending(S), Reverse(Ascending(S))} :
             \E f \in ContentChoices(Ascending(1..MaxID), S) : GetAllItems(Answer(o, f))

Next ==
    \/ CompareItemsCall
    \/ GetItemByIDCall
    \/ GetAllItemsCall
    \/ Discard

Spec == Init /\ [][Next]_vars

(***************************************************************************)
(* Concurrent behaviour: each goroutine executes one service call at a     *)
(* time, in steps: entry (validation, deduplication), the repository call, *)
(* the rest of the method.  ItemServiceImpl has the single field repo,     *)
(* set by NewItemService; everything else is local to the call.            *)
(***************************************************************************)
InitConc ==
    /\ pc = "idle"
    /\ op = "none"
    /\ itemIDs = <<>>
    /\ itemID = 0
    /\ repoCalls = <<>>
    /\ repoReturn = NoReturn
    /\ result = <<>>
    /\ err = <<>>
    /\ store \in Stores
    /\ calls = [g \in Goroutines |-> IdleCall]
    /\ TransportOff
    /\ LimiterOff
    /\ CleanupOff
    /\ ServerOff

\* variant: the deduplicated ids are kept in a field of the service, so that a call
\* reads those of the first call in flight that has stored some
LocalItemIDs_Shared(g) ==
    calls[Min({h \in Goroutines : calls[h].local # <<>>} \cup {g})].local

\* the local variable itemIDs of the CompareItems call of goroutine g
LocalItemIDs(g) == calls[g].local

\* goroutine g enters GetAllItems
BeginGetAllItems(g) ==
    /\ calls[g].pc = "idle"
    /\ calls' = [calls EXCEPT ![g] = [IdleCall EXCEPT !.pc = "querying",
                                                     !.op = "GetAllItems"]]
    /\ UNCHANGED <<concFrame, store>>

\* goroutine g enters GetItemByID(ctx, id) and validates id
BeginGetItemByID(g, id) ==
    /\ calls[g].pc = "idle"
    /\ calls' = [calls EXCEPT ![g] =
          IF ValidateID(id) # <<>>
          THEN [IdleCall EXCEPT !.pc = "returned", !.op = "GetItemByID", !.id = id,
                                !.out = [repoCalls |-> <<>>, result |-> <<>>,
                                         err |-> ValidateID(id)]]
          ELSE [IdleCall EXCEPT !.pc = "querying", !.op = "GetItemByID", !.id = id]]
    /\ UNCHANGED <<concFrame, store>>

\* variant: the caller's slice is sorted in place before the repeats are removed
uniqueIDsArgument_Sorted(ids) == SortFloat64s(ids)

\* the caller's slice after uniqueIDs(ids): the function appends to a slice of its own
\* and only reads ids
uniqueIDsArgument(ids) == ids

\* goroutine g enters CompareItems(ctx, ids), validates the count and removes repeats;
\* arg is the sequence the caller passed, ids the caller's slice as the call leaves it
BeginCompareItems(g, ids) ==
    /\ calls[g].pc = "idle"
    /\ calls' = [calls EXCEPT ![g] =
          IF ValidateCount(ids) # <<>>
          THEN [IdleCall EXCEPT !.pc = "returned", !.op = "CompareItems", !.arg = ids,
                                !.ids = ids,
                                !.out = [repoCalls |-> <<>>, result |-> <<>>,
                                         err |-> ValidateCount(ids)]]
          ELSE [IdleCall EXCEPT !.pc = "querying", !.op = "CompareItems", !.arg = ids,
                                !.ids = uniqueIDsArgument(ids),
                                !.local = uniqueIDs(ids)]]
    /\ UNCHANGED <<concFrame, store>>

\* the repository call of goroutine g
RepoCall(g) ==
    /\ calls[g].pc = "querying"
    /\ calls' = [calls EXCEPT ![g] =
          CASE calls[g].op = "GetAllItems" ->
                  [calls[g] EXCEPT !.pc = "answered", !.sent = <<>>,
                                   !.ret = SQLiteGetAll(store)]
            [] calls[g].op = "GetItemByID" ->
                  [calls[g] EXCEPT !.pc = "answered", !.sent = <<calls[g].id>>,
                                   !.ret = SQLiteGetByID(store, calls[g].id)]
            [] calls[g].op = "CompareItems" ->
                  [calls[g] EXCEPT !.pc = "answered", !.sent = LocalItemIDs(g),
                                   !.ret = SQLiteGetByIDs(store, LocalItemIDs(g))]]
    /\ UNCHANGED <<concFrame, store>>

\* the rest of CompareItems after the GetByIDs call of goroutine g
CompareItemsRest(g) ==
    LET items == calls[g].ret.items
    IN  IF calls[g].ret.err # NoError
        THEN [repoCalls |-> <<calls[g].sent>>, result |-> <<>>,
              err |-> <<NewInternalServerError(
                          Msg("error al obtener los items para comparacion"),
                          calls[g].ret.err)>>]
        ELSE IF Len(items) # Len(LocalItemIDs(g))
        THEN [repoCalls |-> <<calls[g].sent>>, result |-> <<>>,
              err |-> <<NewNotFoundError(
                          [format |-> "Items con IDs %v no encontrados",
                           ids |-> missingItemIDs(LocalItemIDs(g), items)], <<>>)>>]
        ELSE [repoCalls |-> <<calls[g].sent>>, result |-> <<CompareResponse(items)>>,
              err |-> <<>>]

\* goroutine g runs the rest of its method and returns
Finish(g) ==
    /\ calls[g].pc = "answered"
    /\ calls' = [calls EXCEPT ![g] = [calls[g] EXCEPT
          !.pc = "returned",
          !.out = CASE calls[g].op = "GetAllItems" -> GetAllItemsOutcome(calls[g].ret)
                    [] calls[g].op = "GetItemByID" ->
                          GetItemByIDOutcome(calls[g].id, calls[g].ret)
                    [] calls[g].op = "CompareItems" -> CompareItemsRest(g)]]
    /\ UNCHANGED <<concFrame, store>>

\* the caller of goroutine g takes the outcome
Take(g) ==
    /\ calls[g].pc = "returned"
    /\ calls' = [calls EXCEPT ![g] = IdleCall]
    /\ UNCHANGED <<concFrame, store>>

NextConc ==
    \E g \in Goroutines :
        \/ BeginGetAllItems(g)
        \/ \E id \in ConcIDInputs : BeginGetItemByID(g, id)
        \/ \E ids \in ConcRequests : BeginCompareItems(g, ids)
        \/ RepoCall(g)
        \/ Finish(g)
        \/ Take(g)

SpecConc == InitConc /\ [][NextConc]_vars

(***************************************************************************)
(* Transport: the RateLimit middleware and the handlers of ItemHandler,    *)
(* coded against the ItemService interface.  One step serves one request;  *)
(* what the limiter and the service answer are inputs of the step.         *)
(***************************************************************************)
StatusOK == 200
StatusBadRequest == 400
StatusNotFound == 404
StatusUnprocessableEntity == 422
StatusTooManyRequests == 429
StatusInternalServerError == 500

\* an error value that is not a *DomainError
PlainError(text) == [Text |-> text]

\* the type assertion err.(*errors.DomainError)
IsDomainError(e) == "Code" \in DOMAIN e

NewBadRequestError(message, cause) ==
    NewDomainError(ErrorCodeBadRequest, message, cause)

\* variant: a validation error is answered as a bad request
HTTPStatus_ValidationAsBadRequest(e) ==
    CASE e.Code = ErrorCodeNotFound -> StatusNotFound
      [] e.Code = ErrorCodeBadRequest -> StatusBadRequest
      [] e.Code = ErrorCodeValidation -> StatusBadRequest
      [] e.Code = ErrorCodeTooManyRequests -> StatusTooManyRequests
      [] e.Code = ErrorCodeInternalServer -> StatusInternalServerError
      [] OTHER -> StatusInternalServerError

\* DomainError.HTTPStatus
HTTPStatus(e) ==
    CASE e.Code = ErrorCodeNotFound -> StatusNotFound
      [] e.Code = ErrorCodeBadRequest -> StatusBadRequest
      [] e.Code = ErrorCodeValidation -> StatusUnprocessableEntity
      [] e.Code = ErrorCodeTooManyRequests -> StatusTooManyRequests
      [] e.Code = ErrorCodeInternalServer -> StatusInternalServerError
      [] OTHER -> StatusInternalServerError

\* DomainError.ToErrorResponse
ToErrorResponse(e) == [Error |-> TRUE, Message |-> e.Message, Code |-> e.Code]

writeJSON(statusCode, data) == [status |-> statusCode, body |-> data]

\* ItemHandler.handleError
handleError(e) ==
    LET domainErr == IF IsDomainError(e) THEN e
                     ELSE NewInternalServerError(Msg("un error inesperado ha ocurrido"), e)
    IN  writeJSON(HTTPStatus(domainErr), ToErrorResponse(domainErr))

\* the error RateLimiter.writeRateLimitError answers with
RateLimitError ==
    NewDomainError(ErrorCodeTooManyRequests,
                   Msg("Limite de tasa excedido. Por favor, intentelo de nuevo mas tarde"),
                   NoError)

writeRateLimitError == writeJSON(HTTPStatus(RateLimitError), ToErrorResponse(RateLimitError))

\* strconv.ParseInt(s, 10, 64) for a short string s, given as its characters
Digits == <<"0", "1", "2", "3", "4", "5", "6", "7", "8", "9">>

IsDigit(c) == \E i \in 1..10 : Digits[i] = c

DigitValue(c) == (CHOOSE i \in 1..10 : Digits[i] = c) - 1

RECURSIVE DecimalValue(_)
DecimalValue(d) ==
    IF d = <<>> THEN 0
    ELSE 10 * DecimalValue(SubSeq(d, 1, Len(d) - 1)) + DigitValue(d[Len(d)])

ParseInt(s) ==
    LET signed == Len(s) > 0 /\ s[1] \in {"-", "+"}
        d == IF signed THEN Tail(s) ELSE s
    IN  IF Len(d) = 0 \/ \E i \in 1..Len(d) : ~IsDigit(d[i])
        THEN [ok |-> FALSE, value |-> 0]
        ELSE [ok |-> TRUE,
              value |-> IF signed /\ s[1] = "-" THEN 0 - DecimalValue(d)
                        ELSE DecimalValue(d)]

\* ItemHandler.GetAllItems when the service answers ret: the error handled, the
\* response written and whether the service was called
HandlerGetAllItems(ret) ==
    IF ret.err # <<>>
    THEN [handled |-> ret.err, response |-> handleError(ret.err[1]), called |-> TRUE]
    ELSE [handled |-> <<>>, response |-> writeJSON(StatusOK, ret.result[1]),
          called |-> TRUE]

\* ItemHandler.GetItemByID for the URL parameter idStr
HandlerGetItemByID(idStr, ret) ==
    IF ~ParseInt(idStr).ok
    THEN LET domainErr == NewBadRequestError(Msg("formato de id de item invalido"),
                                             "strconv.ParseInt: invalid syntax")
         IN  [handled |-> <<domainErr>>, response |-> handleError(domainErr),
              called |-> FALSE]
    ELSE IF ret.err # <<>>
    THEN [handled |-> ret.err, response |-> handleError(ret.err[1]), called |-> TRUE]
    ELSE [handled |-> <<>>, response |-> writeJSON(StatusOK, ret.result[1]),
          called |-> TRUE]

\* ItemHandler.CompareItems for a body that decodes (body.valid) or does not
HandlerCompareItems(body, ret) ==
    IF ~body.valid
    THEN LET domainErr == NewBadRequestError(Msg("cuerpo de la peticion (body) invalido"),
                                             "invalid character")
         IN  [handled |-> <<domainErr>>, response |-> handleError(domainErr),
              called |-> FALSE]
    ELSE IF ret.err # <<>>
    THEN [handled |-> ret.err, response |-> handleError(ret.err[1]), called |-> TRUE]
    ELSE [handled |-> <<>>, response |-> writeJSON(StatusOK, ret.result[1]),
          called |-> TRUE]

\* RateLimiter.RateLimit around the handler outcome next: a request the limiter does
\* not allow is answered by writeRateLimitError and not passed on
RateLimit(allowed, next) ==
    IF ~allowed
    THEN [handled |-> <<RateLimitError>>, response |-> writeRateLimitError,
          called |-> FALSE]
    ELSE next

\* errors an implementation of ItemService may return
ServiceErrors ==
    {NewDomainError(c, Msg("m"), cause) :
        c \in {ErrorCodeNotFound, ErrorCodeBadRequest, ErrorCodeInternalServer,
               ErrorCodeValidation, ErrorCodeTooManyRequests, "TEAPOT"},
        cause \in {NoError, "boom"}}
    \cup {PlainError("boom"), PlainError(ContextCanceled)}

\* what the service may answer: one of the values, or an error
ServiceReturns(values) ==
    {[result |-> <<v>>, err |-> <<>>] : v \in values}
    \cup {[result |-> <<>>, err |-> <<e>>] : e \in ServiceErrors}

IDStrings ==
    {<<"0">>, <<"1">>, <<"2">>, <<"1", "0">>, <<"-", "1">>, <<"+", "2">>,
     <<>>, <<"-">>, <<"a">>, <<"1", "x">>}

Bodies ==
    {[valid |-> FALSE, ids |-> <<>>]} \cup
    {[valid |-> TRUE, ids |-> ids] : ids \in {<<>>, <<1>>, <<1, 2>>, <<1, 1>>}}

InitTransport ==
    /\ SeqOff
    /\ ConcOff
    /\ TransportOff
    /\ LimiterOff
    /\ CleanupOff
    /\ ServerOff

\* the request as served: the service's answer is kept only if the service was called
RequestServed(route, allowed, idStr, body, ret, out) ==
    [route |-> route, allowed |-> allowed, idStr |-> idStr, body |-> body,
     ret |-> IF out.called THEN <<ret>> ELSE <<>>]

\* GET /api/v1/items
ServeGetAllItems ==
    \E allowed \in BOOLEAN :
    \E ret \in ServiceReturns({<<>>, <<Item(1, DefaultContent(1))>>}) :
        LET out == RateLimit(allowed, HandlerGetAllItems(ret))
        IN  /\ httpReq' = RequestServed("GetAllItems", allowed, <<>>, <<>>, ret, out)
            /\ handled' = out.handled
            /\ response' = out.response
            /\ UNCHANGED transportFrame

\* GET /api/v1/items/{id}
ServeGetItemByID ==
    \E allowed \in BOOLEAN : \E idStr \in IDStrings :
    \E ret \in ServiceReturns({Item(1, DefaultContent(1))}) :
        LET out == RateLimit(allowed, HandlerGetItemByID(idStr, ret))
        IN  /\ httpReq' = RequestServed("GetItemByID", allowed, idStr, <<>>, ret, out)
            /\ handled' = out.handled
            /\ response' = out.response
            /\ UNCHANGED transportFrame

\* POST /api/v1/items/compare
ServeCompareItems ==
    \E allowed \in BOOLEAN : \E body \in Bodies :
    \E ret \in ServiceReturns({CompareResponse(<<Item(1, DefaultContent(1)),
                                                 Item(2, DefaultContent(2))>>)}) :
        LET out == RateLimit(allowed, HandlerCompareItems(body, ret))
        IN  /\ httpReq' = RequestServed("CompareItems", allowed, <<>>, body, ret, out)
            /\ handled' = out.handled
            /\ response' = out.response
            /\ UNCHANGED transportFrame

NextTransport ==
    \/ ServeGetAllItems
    \/ ServeGetItemByID
    \/ ServeCompareItems

SpecTransport == InitTransport /\ [][NextTransport]_vars

(***************************************************************************)
(* The RateLimit middleware with its token buckets.  SetupRouter creates   *)
(* the limiter as NewRateLimiter(100, 1*time.Minute); a limiter of         *)
(* golang.org/x/time/rate is a token bucket of size burst, full when       *)
(* created, refilled at its rate.  Time is counted in token intervals, the *)
(* time in which one token is refilled (timeWindow / rateLimit).           *)
(***************************************************************************)
rateLimit == 100

\* the time window, in token intervals
timeWindow == 100

\* rate.Limit(ratePerSecond), per token interval
RatePerTick == rateLimit \div timeWindow

Burst == rateLimit

\* the client IPs getClientIP extracts from the requests
ClientIPs == {"203.0.113.7"}

\* rate.NewLimiter(limit, burst) at the time t
NewLimiter(t) == [tokens |-> Burst, last |-> t]

\* the tokens of the limiter lim at the time t
TokensAt(lim, t) ==
    IF lim.tokens + (t - lim.last) * RatePerTick > Burst THEN Burst
    ELSE lim.tokens + (t - lim.last) * RatePerTick

\* limiter.Allow() at the time t
Allow(lim, t) == TokensAt(lim, t) >= 1

\* the limiter after Allow() at the time t; a refused call leaves it as it is
AfterAllow(lim, t) ==
    IF Allow(lim, t) THEN [tokens |-> TokensAt(lim, t) - 1, last |-> t] ELSE lim

\* RateLimiter.getLimiter(clientIP) at the time t: the clients map after the call
getLimiter(clients, clientIP, t) ==
    IF clientIP \in DOMAIN clients
    THEN [clients EXCEPT ![clientIP].lastAccess = t]
    ELSE [ip \in DOMAIN clients \cup {clientIP} |->
            IF ip = clientIP THEN [limiter |-> NewLimiter(t), lastAccess |-> t]
            ELSE clients[ip]]

InitLimiter ==
    /\ SeqOff
    /\ ConcOff
    /\ TransportOff
    /\ LimiterOff
    /\ CleanupOff
    /\ ServerOff

\* the middleware serves one request of the client ip
LimitedRequest(ip) ==
    LET got == getLimiter(rlClients, ip, rlNow)
        allowed == Allow(got[ip].limiter, rlNow)
        log == IF ip \in DOMAIN rlForwarded THEN rlForwarded[ip] ELSE <<>>
    IN  /\ rlClients' = [got EXCEPT ![ip].limiter = AfterAllow(got[ip].limiter, rlNow)]
        /\ rlForwarded' = [c \in DOMAIN got |->
                             IF c = ip /\ allowed THEN Append(log, rlNow)
                             ELSE IF c = ip THEN log ELSE rlForwarded[c]]
        /\ rlVerdict' = [ip |-> ip,
                         status |-> IF allowed THEN StatusOK
                                    ELSE RateLimit(FALSE, <<>>).response.status]
        /\ UNCHANGED <<rlNow, limiterFrame>>

\* one token interval passes
Tick ==
    /\ rlNow < MaxTicks
    /\ rlNow' = rlNow + 1
    /\ UNCHANGED <<rlClients, rlForwarded, rlVerdict, limiterFrame>>

NextLimiter ==
    \/ \E ip \in ClientIPs : LimitedRequest(ip)
    \/ Tick

SpecLimiter == InitLimiter /\ [][NextLimiter]_vars

(***************************************************************************)
(* The clients map of the RateLimiter under concurrent requests and the    *)
(* sweeps of the cleanup goroutine.  Time is counted in minutes; of        *)
(* lastAccess the model keeps the minutes elapsed since it, which is what  *)
(* performCleanup compares with limiterEvictionAge.  getLimiter and        *)
(* performCleanup hold rl.mu from their first to their last statement and  *)
(* are one step each; limiter.Allow() is called after the lock is released.*)
(***************************************************************************)
\* ages above limiterEvictionAge are not told apart
IdleCap == limiterEvictionAge + 1

\* time steps: the time passes from one tick of the ticker to the next
Delays == {cleanupInterval}

\* variant: every call creates a limiter and stores it over the entry of the client
getLimiterEntry_AlwaysCreate(clients, clientIP, fresh) ==
    [ip \in DOMAIN clients \cup {clientIP} |->
        IF ip = clientIP THEN [limiter |-> fresh, idle |-> 0] ELSE clients[ip]]

\* RateLimiter.getLimiter(clientIP): the clients map after the call, in which fresh is
\* the limiter created if the client has no entry
getLimiterEntry(clients, clientIP, fresh) ==
    IF clientIP \in DOMAIN clients
    THEN [clients EXCEPT ![clientIP].idle = 0]
    ELSE [ip \in DOMAIN clients \cup {clientIP} |->
            IF ip = clientIP THEN [limiter |-> fresh, idle |-> 0] ELSE clients[ip]]

\* variant: an entry is deleted as soon as its last access is not after the cutoff
performCleanup_NotAfter(clients) ==
    [ip \in {c \in DOMAIN clients : clients[c].idle < limiterEvictionAge} |-> clients[ip]]

\* RateLimiter.performCleanup: the clients map without the entries whose lastAccess is
\* before now - limiterEvictionAge
performCleanup(clients) ==
    [ip \in {c \in DOMAIN clients : ~(clients[c].idle > limiterEvictionAge)} |->
        clients[ip]]

InitCleanup ==
    /\ SeqOff
    /\ ConcOff
    /\ TransportOff
    /\ LimiterOff
    /\ CleanupOff
    /\ ServerOff

\* goroutine g, serving a request of the client ip, returns from getLimiter
GetLimiterStep(g, ip) ==
    /\ ckReqs[g].pc = "idle"
    /\ LET fresh == ckMade[ip] + 1
           got == getLimiterEntry(ckClients, ip, fresh)
       IN  /\ got[ip].limiter <= MaxLimiters
           /\ ckClients' = got
           /\ ckMade' = [ckMade EXCEPT ![ip] = IF got[ip].limiter = fresh THEN fresh ELSE @]
           /\ ckReqs' = [ckReqs EXCEPT ![g] = [pc |-> "holding", ip |-> ip,
                                               limiter |-> got[ip].limiter,
                                               seen |-> ckEvicted[ip]]]
    /\ UNCHANGED <<ckEvicted, ckTicker, cleanupFrame>>

\* goroutine g calls Allow() on the limiter it got and answers or passes the request on
AllowStep(g) ==
    /\ ckReqs[g].pc = "holding"
    /\ ckReqs' = [ckReqs EXCEPT ![g] = IdleRequest]
    /\ UNCHANGED <<ckClients, ckMade, ckEvicted, ckTicker, cleanupFrame>>

\* d minutes pass; the ticker puts a tick in its channel when its interval is over
Advance(d) ==
    /\ ckClients' = [ip \in DOMAIN ckClients |->
          [ckClients[ip] EXCEPT !.idle = IF @ + d > IdleCap THEN IdleCap ELSE @ + d]]
    /\ ckTicker' = IF ckTicker.in - d <= 0
                   THEN [in |-> ckTicker.in - d + cleanupInterval, pending |-> TRUE]
                   ELSE [in |-> ckTicker.in - d, pending |-> ckTicker.pending]
    /\ UNCHANGED <<ckMade, ckEvicted, ckReqs, cleanupFrame>>

\* the cleanup goroutine takes the tick and sweeps
Sweep ==
    /\ ckTicker.pending
    /\ ckClients' = performCleanup(ckClients)
    /\ ckEvicted' = [ip \in SweptIPs |->
          IF ip \in DOMAIN ckClients /\ ip \notin DOMAIN performCleanup(ckClients)
          THEN ckEvicted[ip] + 1 ELSE ckEvicted[ip]]
    /\ ckTicker' = [ckTicker EXCEPT !.pending = FALSE]
    /\ UNCHANGED <<ckMade, ckReqs, cleanupFrame>>

NextCleanup ==
    \/ \E g \in Requesters : \E ip \in SweptIPs : GetLimiterStep(g, ip)
    \/ \E g \in Requesters : AllowStep(g)
    \/ \E d \in Delays : Advance(d)
    \/ Sweep

SpecCleanup == InitCleanup /\ [][NextCleanup]_vars

\* time passes, and the cleanup goroutine, blocked in its select, runs when a tick waits
SpecCleanupFair ==
    /\ InitCleanup
    /\ [][NextCleanup]_vars
    /\ WF_vars(Advance(cleanupInterval))
    /\ WF_vars(Sweep)

(***************************************************************************)
(* Vocabulary of the properties                                            *)
(***************************************************************************)
\* a CompareItems call has returned
Returned == /\ pc = "returned"
            /\ op = "CompareItems"

\* a call of the method o has returned
ReturnedFrom(o) == /\ pc = "returned"
                   /\ op = o

Failed(code) == /\ err # <<>>
                /\ err[1].Code = code

Succeeded == /\ Returned
             /\ result # <<>>
             /\ err = <<>>

\* the call queried the repository
Queried == /\ Returned
           /\ repoCalls # <<>>

\* number of distinct ids of the request
DistinctCount == Cardinality(Range(itemIDs))

\* s with repeats removed, first occurrences kept
FirstOccurrences(s) ==
    SelectSeq([i \in 1..Len(s) |-> IF \E j \in 1..(i - 1) : s[j] = s[i] THEN 0 ELSE s[i]],
              LAMBDA x : x # 0)

IDsOf(items) == {items[i].ID : i \in 1..Len(items)}

IsAscendingByID(items) == \A i \in 1..(Len(items) - 1) : items[i].ID < items[i + 1].ID

\* the items of s that hold the key k
Holders(s, k) == {i \in 1..Len(s) : k \in DOMAIN s[i].Specifications}

(***************************************************************************)
(* Properties                                                              *)
(***************************************************************************)
\* C1: a request with fewer than 2 distinct ids is rejected with a ValidationError,
\* returns no result, and the repository is not queried.
C1_TooFewDistinctRejected ==
    (Returned /\ DistinctCount < MinCompareItems) =>
        /\ result = <<>>
        /\ Failed(ErrorCodeValidation)
        /\ repoCalls = <<>>

\* C2: a request with more than 10 distinct ids is rejected with a ValidationError,
\* returns no result, and the repository is not queried.
C2_TooManyDistinctRejected ==
    (Returned /\ DistinctCount > MaxCompareItems) =>
        /\ result = <<>>
        /\ Failed(ErrorCodeValidation)
        /\ repoCalls = <<>>

C2_Witness ==
    /\ Returned
    /\ DistinctCount > MaxCompareItems
    /\ Failed(ErrorCodeValidation)

\* C3: a request whose number of distinct ids is between 2 and 10 is not rejected
\* with a ValidationError and reaches the bulk lookup, whatever its raw length.
C3_DistinctCountDecides ==
    (Returned /\ DistinctCount >= MinCompareItems /\ DistinctCount <= MaxCompareItems) =>
        /\ ~Failed(ErrorCodeValidation)
        /\ Len(repoCalls) = 1

\* C4: whenever the repository is queried, it is queried once, with each distinct
\* requested id exactly once, in the order of first occurrence in the request.
C4_QueryIsStableDedup ==
    Queried =>
        /\ Len(repoCalls) = 1
        /\ repoCalls[1] = FirstOccurrences(itemIDs)

C4_Witness ==
    /\ Queried
    /\ itemIDs = <<2, 1, 2>>
    /\ repoCalls = << <<2, 1>> >>

\* C5: a request and the same request with its repeats removed issue the same
\* repository query (or none, both) and, the repository answering alike, end in the
\* same result and error.
C5_DedupIdempotent ==
    Returned =>
        LET d == CompareItemsOutcome(FirstOccurrences(itemIDs), repoReturn)
        IN  /\ d.repoCalls = repoCalls
            /\ d.result = result
            /\ d.err = err

\* C6: when the repository returns fewer items than distinct ids requested, the call
\* fails with a NotFoundError, returns no result, and names exactly the requested ids
\* that no returned item carries, each once.
C6_MissingNamedExactly ==
    (Queried /\ repoReturn.err = NoError /\ Len(repoReturn.items) < DistinctCount) =>
        /\ result = <<>>
        /\ Failed(ErrorCodeNotFound)
        /\ Range(err[1].Message.ids) = Range(itemIDs) \ IDsOf(repoReturn.items)
        /\ Len(err[1].Message.ids) = Cardinality(Range(err[1].Message.ids))

\* the only missing id is the first one requested, and items were found
C6_Witness ==
    /\ Queried
    /\ Failed(ErrorCodeNotFound)
    /\ Len(repoReturn.items) >= 1
    /\ err[1].Message.ids = <<itemIDs[1]>>

\* C7: when the bulk lookup fails, the call returns no result (no comparison is
\* computed) and an INTERNAL_SERVER_ERROR wrapping the repository's error.
C7_LookupFailureWrapped ==
    (Queried /\ repoReturn.err # NoError) =>
        /\ result = <<>>
        /\ Failed(ErrorCodeInternalServer)
        /\ err[1].Err = repoReturn.err

C7_Witness ==
    /\ Queried
    /\ repoReturn.err \in RepoErrors
    /\ Failed(ErrorCodeInternalServer)

C9_CommonIffInEveryItem ==
    Succeeded =>
        \A k \in SpecKeys :
            k \in Range(result[1].Comparison.CommonSpecs)
                <=> \A i \in 1..Len(result[1].Items) :
                        k \in DOMAIN result[1].Items[i].Specifications

\* three items; a common key under which two items differ, and a key two of the
\* three items hold, which is not common
C9_Witness ==
    /\ Succeeded
    /\ Len(result[1].Items) = 3
    /\ \E k \in Range(result[1].Comparison.CommonSpecs) :
          \E i, j \in 1..3 :
             result[1].Items[i].Specifications[k] # result[1].Items[j].Specifications[k]
    /\ \E k \in SpecKeys \ Range(result[1].Comparison.CommonSpecs) :
          Cardinality(Holders(result[1].Items, k)) = 2

\* C10: in a successful result a key is listed in unique_specs under the item X iff
\* exactly one item holds it, that item is X, and the key is not in common_specs.
C10_UniqueIffInOneItem ==
    Succeeded =>
        LET items == result[1].Items
            unique == result[1].Comparison.UniqueSpecs
            common == Range(result[1].Comparison.CommonSpecs)
        IN  \A X \in 1..MaxLen : \A k \in SpecKeys :
                (X \in DOMAIN unique /\ k \in Range(unique[X]))
                    <=> /\ Cardinality(Holders(items, k)) = 1
                        /\ \A i \in Holders(items, k) : items[i].ID = X
                        /\ k \notin common

\* the keys of s are in strictly ascending lexicographic order
StrictlyAscending(s) == \A i \in 1..(Len(s) - 1) : KeyRank[s[i]] < KeyRank[s[i + 1]]

\* C11: in every returned comparison, common_specs and each item's unique_specs list
\* share no key.
C11_CommonUniqueDisjoint ==
    Succeeded =>
        \A X \in DOMAIN result[1].Comparison.UniqueSpecs :
            Range(result[1].Comparison.UniqueSpecs[X])
                \cap Range(result[1].Comparison.CommonSpecs) = {}

\* C12: unique_specs never maps an item to an empty list; when no key is held by
\* exactly one item, the mapping has no entries.
C12_NoEmptyUniqueList ==
    Succeeded =>
        /\ \A X \in DOMAIN result[1].Comparison.UniqueSpecs :
              result[1].Comparison.UniqueSpecs[X] # <<>>
        /\ (\A k \in SpecKeys : Cardinality(Holders(result[1].Items, k)) # 1)
              => DOMAIN result[1].Comparison.UniqueSpecs = {}

\* one item has a unique key and another item, which has none, is absent
C12_Witness ==
    /\ Succeeded
    /\ DOMAIN result[1].Comparison.UniqueSpecs # {}
    /\ IDsOf(result[1].Items) \ DOMAIN result[1].Comparison.UniqueSpecs # {}

\* C13: common_specs and every list of unique_specs are in strictly ascending
\* lexicographic order (so without repeats).
C13_SpecListsSorted ==
    Succeeded =>
        /\ StrictlyAscending(result[1].Comparison.CommonSpecs)
        /\ \A X \in DOMAIN result[1].Comparison.UniqueSpecs :
              StrictlyAscending(result[1].Comparison.UniqueSpecs[X])

\* two items, one of which has two unique keys, next to a common key
C13_Witness ==
    /\ Succeeded
    /\ Len(result[1].Items) >= 2
    /\ Len(result[1].Comparison.CommonSpecs) >= 1
    /\ \E X \in DOMAIN result[1].Comparison.UniqueSpecs :
          Len(result[1].Comparison.UniqueSpecs[X]) >= 2

\* C14: the price range and the rating range of a successful result are the smallest
\* and largest price, and the smallest and largest rating, of its items; min <= max,
\* with equality exactly when all the values are equal.
C14_RangesAreMinMax ==
    Succeeded =>
        LET items == result[1].Items
            prices == {items[i].Price : i \in 1..Len(items)}
            ratings == {items[i].Rating : i \in 1..Len(items)}
            pr == result[1].Comparison.PriceRange
            rr == result[1].Comparison.RatingRange
        IN  /\ pr.Min \in prices /\ \A v \in prices : pr.Min <= v
            /\ pr.Max \in prices /\ \A v \in prices : pr.Max >= v
            /\ rr.Min \in ratings /\ \A v \in ratings : rr.Min <= v
            /\ rr.Max \in ratings /\ \A v \in ratings : rr.Max >= v
            /\ pr.Min <= pr.Max
            /\ rr.Min <= rr.Max
            /\ (pr.Min = pr.Max) <=> (Cardinality(prices) = 1)
            /\ (rr.Min = rr.Max) <=> (Cardinality(ratings) = 1)

\* the prices differ while the ratings are all equal, and the first item returned
\* does not have the smallest price
C14_Witness ==
    /\ Succeeded
    /\ Len(result[1].Items) = 3
    /\ result[1].Comparison.PriceRange.Min < result[1].Comparison.PriceRange.Max
    /\ result[1].Comparison.RatingRange.Min = result[1].Comparison.RatingRange.Max
    /\ result[1].Items[1].Price > result[1].Comparison.PriceRange.Min

\* C15: a successful result holds at least 2 and at most 10 items.
C15_ResultItemCount ==
    Succeeded =>
        /\ Len(result[1].Items) >= MinCompareItems
        /\ Len(result[1].Items) <= MaxCompareItems

\* C16: for an identifier <= 0, GetItemByID returns a validation error and no item,
\* and does not call the repository.
C16_NonPositiveIDRejected ==
    (ReturnedFrom("GetItemByID") /\ itemID <= 0) =>
        /\ Failed(ErrorCodeValidation)
        /\ result = <<>>
        /\ repoCalls = <<>>

\* the identifier 0 was asked for
C16_Witness ==
    /\ ReturnedFrom("GetItemByID")
    /\ itemID = 0
    /\ Failed(ErrorCodeValidation)

\* C17: for an identifier > 0, GetItemByID asks the repository for it and returns the
\* repository's item when it answers one, a not-found error naming the identifier when
\* it answers ErrNotFound, and an internal error wrapping the repository's error
\* otherwise; exactly one of the three, decided by the repository's answer.
C17_GetItemByIDFollowsStore ==
    (ReturnedFrom("GetItemByID") /\ itemID > 0) =>
        /\ repoCalls = <<<<itemID>>>>
        /\ (repoReturn.err = NoError) =>
              /\ result = repoReturn.items
              /\ Len(result) = 1
              /\ err = <<>>
        /\ (repoReturn.err = ErrNotFound) =>
              /\ result = <<>>
              /\ Failed(ErrorCodeNotFound)
              /\ err[1].Message.id = <<itemID>>
        /\ (repoReturn.err \notin {NoError, ErrNotFound}) =>
              /\ result = <<>>
              /\ Failed(ErrorCodeInternalServer)
              /\ err[1].Err = repoReturn.err
        /\ Cardinality({b \in {1, 2, 3} :
                          \/ b = 1 /\ result # <<>> /\ err = <<>>
                          \/ b = 2 /\ Failed(ErrorCodeNotFound)
                          \/ b = 3 /\ Failed(ErrorCodeInternalServer)}) = 1

\* the repository reported the item absent
C17_Witness ==
    /\ ReturnedFrom("GetItemByID")
    /\ itemID > 0
    /\ repoReturn.err = ErrNotFound
    /\ Failed(ErrorCodeNotFound)

\* C18: when the repository call of GetAllItems, GetItemByID or CompareItems fails
\* because the context was cancelled, the caller is not given an
\* INTERNAL_SERVER_ERROR.
C18_CancellationNotInternalError ==
    (pc = "returned" /\ repoCalls # <<>> /\ repoReturn.err = ContextCanceled) =>
        ~Failed(ErrorCodeInternalServer)

\* C19: a call asks the repository at most once; an error it returns is of exactly one
\* of the kinds validation, not found, internal; a repository failure is returned as
\* an internal error with the repository's error as its cause.
C19_OneCallOneErrorKind ==
    (pc = "returned") =>
        /\ Len(repoCalls) <= 1
        /\ Len(err) <= 1
        /\ (err # <<>>) =>
              /\ err[1].Code \in
                    {ErrorCodeValidation, ErrorCodeNotFound, ErrorCodeInternalServer}
              /\ result = <<>>
        /\ (/\ repoReturn.err # NoError
            /\ ~(op = "GetItemByID" /\ repoReturn.err = ErrNotFound)) =>
              /\ Failed(ErrorCodeInternalServer)
              /\ err[1].Err = repoReturn.err
              /\ Len(repoCalls) = 1

\* GetAll failed and GetAllItems returned after that one call
C19_Witness ==
    /\ ReturnedFrom("GetAllItems")
    /\ repoReturn.err \in RepoErrors
    /\ Len(repoCalls) = 1
    /\ Failed(ErrorCodeInternalServer)

\* the outcome of the call (o, ids, id) when it runs alone against the table
AloneOutcome(o, ids, id) ==
    CASE o = "GetAllItems" -> GetAllItemsOutcome(SQLiteGetAll(store))
      [] o = "GetItemByID" -> GetItemByIDOutcome(id, SQLiteGetByID(store, id))
      [] o = "CompareItems" ->
            CompareItemsOutcome(ids, IF QueriesOf(ids) = <<>> THEN NoReturn
                                     ELSE SQLiteGetByIDs(store, QueriesOf(ids)[1]))

\* C20: under any interleaving of concurrent GetAllItems, GetItemByID and CompareItems
\* calls against an unchanging store, the outcome of each call is the one it has when
\* it runs alone with the same input.
C20_OutcomeAsAlone ==
    \A g \in Goroutines :
        (calls[g].pc = "returned") =>
            calls[g].out = AloneOutcome(calls[g].op, calls[g].ids, calls[g].id)

\* a comparison has returned its result while another comparison, of other ids, is
\* between its repository call and its return
C20_Witness ==
    /\ calls[1].pc = "returned"
    /\ calls[1].op = "CompareItems"
    /\ calls[1].out.result # <<>>
    /\ calls[2].pc = "answered"
    /\ calls[2].op = "CompareItems"
    /\ calls[2].ids # calls[1].ids
    /\ calls[2].ret.items # <<>>

\* C21: the calls modify nothing they are given: the items returned by GetAllItems,
\* GetItemByID and CompareItems are the repository's items, field for field; the
\* caller's identifier sequence is as it was passed; the table behind the repository
\* is only read.
C21_NothingGivenIsModified ==
    /\ [](\A g \in Goroutines :
            /\ calls[g].ids = calls[g].arg
            /\ (calls[g].pc = "returned" /\ calls[g].out.err = <<>>) =>
                  CASE calls[g].op = "GetAllItems" ->
                          calls[g].out.result = <<calls[g].ret.items>>
                    [] calls[g].op = "GetItemByID" ->
                          calls[g].out.result = calls[g].ret.items
                    [] calls[g].op = "CompareItems" ->
                          calls[g].out.result[1].Items = calls[g].ret.items)
    /\ [][store' = store]_vars

\* a comparison of a request that is not in ascending order has returned its items
C21_Witness ==
    \E g \in Goroutines :
        /\ calls[g].pc = "returned"
        /\ calls[g].op = "CompareItems"
        /\ calls[g].arg = <<2, 1>>
        /\ calls[g].local = <<2, 1>>
        /\ calls[g].out.result # <<>>
        /\ calls[g].out.result[1].Items = calls[g].ret.items

\* C22: every error is answered with exactly one status: validation 422, not found
\* 404, internal 500, bad request 400, rate limit 429, and an error that is not a
\* domain error or has an unknown code 500; the body has error = true and the same code;
\* a request served without error is answered 200.
C22_StatusOfEveryError ==
    (httpReq.route # "none") =>
        IF handled = <<>>
        THEN response.status = 200
        ELSE LET code == IF IsDomainError(handled[1]) THEN handled[1].Code
                         ELSE ErrorCodeInternalServer
             IN  /\ response.status =
                       CASE code = ErrorCodeValidation -> 422
                         [] code = ErrorCodeNotFound -> 404
                         [] code = ErrorCodeInternalServer -> 500
                         [] code = ErrorCodeBadRequest -> 400
                         [] code = ErrorCodeTooManyRequests -> 429
                         [] OTHER -> 500
                 /\ response.body.Error = TRUE
                 /\ response.body.Code = code

\* the service returned a validation error to the comparison handler
C22_Witness ==
    /\ httpReq.route = "CompareItems"
    /\ httpReq.ret # <<>>
    /\ handled # <<>>
    /\ IsDomainError(handled[1])
    /\ handled[1].Code = ErrorCodeValidation
    /\ response.status = 422

\* requests of the client ip passed on in the window of timeWindow intervals from t
ForwardedInWindow(ip, t) ==
    Cardinality({i \in 1..Len(rlForwarded[ip]) :
                    rlForwarded[ip][i] >= t /\ rlForwarded[ip][i] < t + timeWindow})

\* C23: in any one-minute window at most 100 requests of a client IP are passed to the
\* next handler; further requests in the window are answered 429.
C23_AtMost100PerWindow ==
    \A ip \in DOMAIN rlForwarded : \A t \in 0..rlNow :
        ForwardedInWindow(ip, t) <= 100


(***************************************************************************)
(* Properties of the clients map under sweeps and concurrent requests.     *)
(***************************************************************************)
\* the step of the cleanup goroutine: it takes the waiting tick
IsSweepStep == ckTicker.pending /\ ~ckTicker'.pending

\* C24: a sweep removes exactly the entries whose last access is older than
\* limiterEvictionAge and leaves the others as they were, no other step removes an
\* entry, and with recurring sweeps the entry of every client is, again and again, either
\* gone or just accessed: a client that stops sending requests is eventually removed
C24_SweepEvictsExactlyTheIdle ==
    /\ [][/\ IsSweepStep =>
                /\ DOMAIN ckClients' =
                      {ip \in DOMAIN ckClients : ckClients[ip].idle <= limiterEvictionAge}
                /\ \A ip \in DOMAIN ckClients' : ckClients'[ip] = ckClients[ip]
          /\ ~IsSweepStep => DOMAIN ckClients \subseteq DOMAIN ckClients']_vars
    /\ \A ip \in SweptIPs : []<>(ip \notin DOMAIN ckClients \/ ckClients[ip].idle = 0)

\* a sweep has removed the entry of one client and kept the entry of another, which was
\* last accessed exactly limiterEvictionAge ago or less and at least an interval ago
C24_Witness ==
    \E a, b \in SweptIPs :
        /\ a \notin DOMAIN ckClients
        /\ ckEvicted[a] > 0
        /\ b \in DOMAIN ckClients
        /\ ckEvicted[b] = 0
        /\ ckClients[b].idle >= cleanupInterval
        /\ ~ckTicker.pending

\* C27 as stated: two requests of one client that are between getLimiter and Allow
\* hold the same limiter, under every interleaving with other requests and sweeps
C27_ConcurrentRequestsShareLimiter ==
    \A g, h \in Requesters :
        (/\ ckReqs[g].pc = "holding"
         /\ ckReqs[h].pc = "holding"
         /\ ckReqs[g].ip = ckReqs[h].ip) => ckReqs[g].limiter = ckReqs[h].limiter

\* C27, amended: the limiters of a client that were created and not evicted number one
\* when the client has an entry and none otherwise; two requests of one client between
\* getLimiter and Allow hold the same limiter when no sweep evicted the client between
\* their calls of getLimiter, and a request holds the limiter of the entry as long as the
\* client was not evicted since
C27_OneLimiterPerClientBetweenEvictions ==
    /\ \A ip \in SweptIPs :
          ckMade[ip] - ckEvicted[ip] = IF ip \in DOMAIN ckClients THEN 1 ELSE 0
    /\ \A g, h \in Requesters :
          (/\ ckReqs[g].pc = "holding"
           /\ ckReqs[h].pc = "holding"
           /\ ckReqs[g].ip = ckReqs[h].ip
           /\ ckReqs[g].seen = ckReqs[h].seen) => ckReqs[g].limiter = ckReqs[h].limiter
    /\ \A g \in Requesters :
          (/\ ckReqs[g].pc = "holding"
           /\ ckReqs[g].ip \in DOMAIN ckClients
           /\ ckReqs[g].seen = ckEvicted[ckReqs[g].ip]) =>
                ckClients[ckReqs[g].ip].limiter = ckReqs[g].limiter

\* two requests of one client are between getLimiter and Allow, the first of them
\* having created the limiter both hold
C27_Witness ==
    \E g, h \in Requesters :
        /\ g # h
        /\ ckReqs[g].pc = "holding"
        /\ ckReqs[h].pc = "holding"
        /\ ckReqs[g].ip = ckReqs[h].ip
        /\ ckReqs[g].limiter = ckReqs[h].limiter
        /\ ckClients[ckReqs[g].ip].idle = 0

(***************************************************************************)
(* The process: main builds the server with NewServer (which opens the     *)
(* repository, seeds the table and sets up the router, whose RateLimiter   *)
(* starts its cleanup goroutine), calls Server.Start, and exits when Start *)
(* returns.  The database file outlives the process.                       *)
(***************************************************************************)
\* sweeps of one process that are counted
MaxSweeps == 2

\* the names of seedItems, in the order of their insertion
seedItems == <<"MacBook Pro 16", "Dell XPS 15", "HP Spectre x360",
               "Lenovo ThinkPad X1 Carbon", "ASUS ROG Zephyrus G14">>

\* the statement of Seed that fails: 0 for the count query, k for the insert of the k-th
\* seed item, Len(seedItems) + 1 for none
FailPoints == 0..(Len(seedItems) + 1)

\* SQLiteItemRepository.Seed on a table holding items: the table after the call and the
\* error returned ("" for nil)
Seed(items, failAt) ==
    IF failAt = 0
    THEN [items |-> items, err |-> "failed to check existing data"]
    ELSE IF Len(items) > 0
    THEN [items |-> items, err |-> ""]
    ELSE IF failAt <= Len(seedItems)
    THEN [items |-> SubSeq(seedItems, 1, failAt - 1), err |-> "failed to insert seed item"]
    ELSE [items |-> seedItems, err |-> ""]

\* RateLimiter.Stop: the context of the cleanup goroutine is cancelled and its loop returns
Stop(loop) == [loop EXCEPT !.stopCalled = TRUE, !.state = "terminated"]

InitServer ==
    /\ SeqOff
    /\ ConcOff
    /\ TransportOff
    /\ LimiterOff
    /\ CleanupOff
    /\ ServerOff

\* main calls NewServer: the repository is opened, Seed runs, and when it returned nil the
\* router is set up; on an error of Seed main exits through log.Fatalf
NewServer(failAt) ==
    /\ srv.pc = "exited"
    /\ LET seeded == Seed(db.items, failAt)
       IN  /\ seedRet' = [called |-> TRUE, err |-> seeded.err,
                          inserted |-> Len(seeded.items) - Len(db.items)]
           /\ IF seeded.err # ""
              THEN /\ db' = [open |-> FALSE, items |-> seeded.items]
                   /\ srv' = NoProcess
                   /\ cleanupLoop' = NoCleanupLoop
              ELSE /\ db' = [open |-> TRUE, items |-> seeded.items]
                   /\ srv' = [NoProcess EXCEPT !.pc = "constructed"]
                   /\ cleanupLoop' = [NoCleanupLoop EXCEPT !.state = "running"]
    /\ UNCHANGED serverFrame

\* Server.Start up to <-stop
Start ==
    /\ srv.pc = "constructed"
    /\ srv' = [srv EXCEPT !.pc = "serving"]
    /\ UNCHANGED <<db, seedRet, cleanupLoop, serverFrame>>

\* ListenAndServe fails and its goroutine ends the process through log.Fatalf
ListenFails ==
    /\ srv.pc = "serving"
    /\ srv' = NoProcess
    /\ db' = [db EXCEPT !.open = FALSE]
    /\ cleanupLoop' = NoCleanupLoop
    /\ UNCHANGED <<seedRet, serverFrame>>

\* SIGINT or SIGTERM arrives: Start goes on and calls httpServer.Shutdown
StopSignal ==
    /\ srv.pc = "serving"
    /\ srv' = [srv EXCEPT !.pc = "shutting"]
    /\ UNCHANGED <<db, seedRet, cleanupLoop, serverFrame>>

\* httpServer.Shutdown returns e; Start returns at once when e is an error
ShutdownReturns(e) ==
    /\ srv.pc = "shutting"
    /\ srv' = IF e = "error"
              THEN [srv EXCEPT !.pc = "returned", !.shutdown = e, !.ret = "error"]
              ELSE [srv EXCEPT !.pc = "closing", !.shutdown = e]
    /\ UNCHANGED <<db, seedRet, cleanupLoop, serverFrame>>

\* repo.Close() returns e and Start returns
CloseReturns(e) ==
    /\ srv.pc = "closing"
    /\ srv' = [srv EXCEPT !.pc = "returned", !.closed = TRUE, !.ret = e]
    /\ db' = [db EXCEPT !.open = FALSE]
    /\ UNCHANGED <<seedRet, cleanupLoop, serverFrame>>

\* main ends after Start returned, and the process with it
Exit ==
    /\ srv.pc = "returned"
    /\ srv' = NoProcess
    /\ db' = [db EXCEPT !.open = FALSE]
    /\ cleanupLoop' = NoCleanupLoop
    /\ UNCHANGED <<seedRet, serverFrame>>

\* the ticker of the cleanup goroutine fires and the goroutine sweeps
CleanupSweep ==
    /\ cleanupLoop.state = "running"
    /\ cleanupLoop.sweeps < MaxSweeps
    /\ cleanupLoop' = [cleanupLoop EXCEPT !.sweeps = @ + 1,
                                          !.late = @ \/ srv.pc = "returned"]
    /\ UNCHANGED <<srv, db, seedRet, serverFrame>>

NextServer ==
    \/ \E failAt \in FailPoints : NewServer(failAt)
    \/ Start
    \/ ListenFails
    \/ StopSignal
    \/ \E e \in {"nil", "error"} : ShutdownReturns(e)
    \/ \E e \in {"nil", "error"} : CloseReturns(e)
    \/ Exit
    \/ CleanupSweep

SpecServer == InitServer /\ [][NextServer]_vars

(***************************************************************************)
(* Properties of the process.                                              *)
(***************************************************************************)
\* C25: whenever Server.Start has returned after a stop signal, whatever Shutdown
\* returned, repo.Close() has been called, and it is called only after Shutdown returned
C25_RepositoryClosedOnReturn ==
    /\ srv.pc = "returned" => srv.closed
    /\ srv.closed => srv.shutdown # "none"

\* C26: when the last Seed call returned nil, the table holds exactly the seed items
C26_SeededTableHoldsSeedItems ==
    (seedRet.called /\ seedRet.err = "") => db.items = seedItems

\* C28: when Server.Start has returned, RateLimiter.Stop has been called, the cleanup
\* loop has terminated and no sweep ran after the return
C28_CleanupStoppedOnShutdown ==
    srv.pc = "returned" =>
        /\ cleanupLoop = Stop(cleanupLoop)
        /\ ~cleanupLoop.late

(***************************************************************************)
(* CompareItems over a store that is only known through the ItemRepository *)
(* interface: GetByIDs may answer any list of items, whatever was asked.   *)
(***************************************************************************)
\* the lists of identifiers of the items a store answers
AnyAnswers == UNION {[1..n -> 1..MaxID] : n \in 0..MaxShortLen}

\* a call with the request ids; the store answers the query, if it is made, with an
\* error or with any list of items: unrequested ones, repeated ones, more than requested
CompareItemsAnyStoreCall ==
    /\ pc = "idle"
    /\ \E ids \in ShortInputs :
          IF QueriesOf(ids) = <<>>
          THEN CompareItems(ids, NoReturn)
          ELSE \/ \E e \in RepoErrors : CompareItems(ids, Failure(e))
               \/ \E o \in AnyAnswers :
                     CompareItems(ids, Answer(o, [id \in 1..MaxID |-> DefaultContent(id)]))

NextAnyStore ==
    \/ CompareItemsAnyStoreCall
    \/ Discard

SpecAnyStore == Init /\ [][NextAnyStore]_vars

====
